---------------------------- MODULE Spec2Model ----------------------------
(***************************************************************************)
(* A model of flippy (src/src/main.rs): a Flappy-Bird clone on the         *)
(* amethyst engine.  The model follows the engine's frame:                 *)
(*   read the event channels (window events first, game events last),      *)
(*   deliver each event to the state on top of the stack and apply the     *)
(*   transition it returns, run the top state's update, then               *)
(*   world.maintain() removes the entities deleted during the frame.       *)
(*                                                                         *)
(* Numbers.  The source computes in f32.  The model is fixed-point: time   *)
(* is counted in 1/Scale seconds and lengths in 1/Scale pixels, so that    *)
(* speed * dt (pixels per second times seconds) is the same numeral times  *)
(* the tick count, and every constant of the source is its value * Scale.  *)
(***************************************************************************)
EXTENDS Integers, Sequences, FiniteSets

\* ------------------------------------------------------------ constants
VIRTUAL_WIDTH == 512
VIRTUAL_HEIGHT == 288
GROUND_HEIGHT == 12
GROUND_WIDTH == 1100
BACKGROUND_SCROLL_SPEED == 30
GROUND_SCROLL_SPEED == 61
BACKGROUND_LOOPING_POINT == 413
BACKGROUND_LOOPING_OFFSET == 290
BIRD_GRAVITY == -26
BIRD_WIDTH == 38
BIRD_HEIGHT == 24
BIRD_JUMP == 4
PIPE_SCROLL == -60
PIPE_WIDTH == 70
PIPE_HEIGHT == 288
PIPE_GAP == 110

\* Fixed-point scale: units per pixel and ticks per second.
Scale == 60

\* Px(c): the f32 constant c (pixels, or seconds) in model units.
Px(c) == c * Scale

\* ------------------------------------------------------------ bounds
\* Frames the model runs (CoreApplication::run loops until Quit).
MaxFrames == 4

\* Time::delta_seconds() of a frame, in ticks: 0 s, 1 s, 5 s, 11 s.
DtSet == {0, Scale, 5 * Scale, 11 * Scale}

\* Mutant: the timer is reset to 1 s.
TimerSet_Short == {Scale}

\* rand.gen_range(2., 4.) in ticks: a few values of [2 s, 4 s).
TimerSet == {2 * Scale, 4 * Scale - 1}

\* rand.gen_range(-40., -20.), rand.gen_range(20., 40.) and the values
\* gen_range(rand_bot, rand_top) is tried on.
RandBotSet == {Px(-40), Px(-20) - 1}
RandTopSet == {Px(20), Px(40) - 1}
RandomYSet == {Px(-40), Px(40) - 2}

\* random_y: gen_range(rand_bot, rand_top) over the draws of rand_bot, rand_top
RandomYs ==
  {v \in RandomYSet : \E rand_bot \in RandBotSet, rand_top \in RandTopSet :
                         rand_bot <= v /\ v < rand_top}

\* The window events of one frame: none, or one of these.
WindowEvents == {"Close", "Escape", "Space", "SpaceUp"}

\* ------------------------------------------------------------ state
VARIABLES
  phase,            \* the state stack, bottom first: "Title", "Play", "Pause"
  running,          \* StateMachine.running: FALSE after Trans::Quit
  pc,               \* place in the frame: "read", "handle"
  events,           \* the events read for this frame, in delivery order
  cursor,           \* how many of them have been delivered
  frame,            \* frames started
  channel,          \* GameEvent::Collision events written, not yet read
  keyDown,          \* InputHandler: is Space down
  delta_seconds,    \* Time::delta_seconds() of the last update, in ticks
  birds,            \* Bird + Transform storage (sequence of records)
  pipes,            \* Pipe + Transform storage
  backgrounds,      \* Background + Transform storage
  pipe_spawn_timer, \* PlayState.pipe_spawn_timer: <<>> is None, <<t>> Some(t)
  scoreText,        \* UiText of Score.text: <<>> before it exists, <<s>>
  titleText,        \* UiText of the "title" ui entity
  hidden,           \* the ui entities with a Hidden component
  ui_loaded,        \* the entities of ui/text.ron ("title", "sub_title") exist
  panic,            \* the message of the panic that ended the program, or ""
  spawned,          \* history: pipe pairs spawned since the bird was created
  key_was_down,     \* history: the InputHandler's Space state that the
                    \* update before the last one ran with
  since_spawn       \* history: the sum of dt over the Play ticks since the
                    \* last spawn (since on_start before the first one)

vars == <<phase, running, pc, events, cursor, frame, channel, keyDown,
          delta_seconds, birds,
          pipes, backgrounds, pipe_spawn_timer, scoreText, titleText, hidden,
          ui_loaded, panic, spawned, key_was_down, since_spawn>>

\* ------------------------------------------------------------ helpers
Top(s) == s[Len(s)]

Digit(d) ==
  CASE d = 0 -> "0" [] d = 1 -> "1" [] d = 2 -> "2" [] d = 3 -> "3"
    [] d = 4 -> "4" [] d = 5 -> "5" [] d = 6 -> "6" [] d = 7 -> "7"
    [] d = 8 -> "8" [] d = 9 -> "9"

RECURSIVE Decimal(_)
Decimal(n) == IF n < 10 THEN Digit(n) ELSE Decimal(n \div 10) \o Digit(n % 10)

\* i32::to_string
to_string(n) == IF n < 0 THEN "-" \o Decimal(0 - n) ELSE Decimal(n)

\* format!("Your Score: {}", last_score)
FinalScoreText(last_score) == "Your Score: " \o last_score

\* The text ui/text.ron gives the "title" entity (the asset is not in src/).
UiTitleText == "title"

point_in_rect_Strict(x, y, left, bottom, right, top) ==
  x > left /\ x < right /\ y > bottom /\ y < top

\* fn point_in_rect
point_in_rect(x, y, left, bottom, right, top) ==
  x >= left /\ x <= right /\ y >= bottom /\ y <= top

\* Bird::default() with Transform (0, 0, 4)
NewBird == [x |-> 0, y |-> 0, dy |-> 0, score |-> 0, fly_pressed |-> FALSE,
            killed |-> FALSE]

\* Pipe::default() with a Transform; pair is history (which spawn made it)
NewPipe(px, py, rotated, n) ==
  [x |-> px, y |-> py, rot |-> rotated, is_scored |-> FALSE, killed |-> FALSE,
   pair |-> n]

\* world.maintain(): the entities deleted since the last call go
Maintain(store) == SelectSeq(store, LAMBDA e : ~e.killed)

\* entities.delete(e) on every entity of a storage (lazy: until maintain)
DeleteAll(store) == [i \in 1..Len(store) |-> [store[i] EXCEPT !.killed = TRUE]]

Live(store) == {i \in 1..Len(store) : ~store[i].killed}

\* ------------------------------------------------------------ systems
\* BackgroundSystem::run on one entity: scroll, wrap, place
ScrollSpeed(b_type) ==
  IF b_type = "Background" THEN BACKGROUND_SCROLL_SPEED ELSE GROUND_SCROLL_SPEED

\* Mutant: the offset is not wrapped.
ScrollOne_NoWrap(b, dt) ==
  LET pos == b.scroll_pos + ScrollSpeed(b.b_type) * dt
  IN  [b EXCEPT !.scroll_pos = pos, !.x = Px(BACKGROUND_LOOPING_OFFSET) - pos]

ScrollOne(b, dt) ==
  LET pos == (b.scroll_pos + ScrollSpeed(b.b_type) * dt)
               % Px(BACKGROUND_LOOPING_POINT)
  IN  [b EXCEPT !.scroll_pos = pos, !.x = Px(BACKGROUND_LOOPING_OFFSET) - pos]

BackgroundSystem_run(bgs, dt) == [i \in 1..Len(bgs) |-> ScrollOne(bgs[i], dt)]

\* BirdSystem::run on one entity: gravity, the jump on a key edge, the move
FlyOne(b, dt, space_pressed) ==
  LET fallen == b.dy + BIRD_GRAVITY * dt
      dy     == IF space_pressed /\ space_pressed # b.fly_pressed
                THEN Px(BIRD_JUMP) ELSE fallen
  IN  [b EXCEPT !.dy = dy, !.fly_pressed = space_pressed, !.y = b.y + dy]

BirdSystem_run(bs, dt, space_pressed) ==
  [i \in 1..Len(bs) |-> FlyOne(bs[i], dt, space_pressed)]

\* The x below which PipeSystem deletes a pipe
PipeRemoveX == Px(0 - VIRTUAL_WIDTH \div 2 - PIPE_WIDTH)

PipeOne_TestFirst(p, dt) ==
  [p EXCEPT !.x = p.x + PIPE_SCROLL * dt,
            !.killed = p.killed \/ p.x < PipeRemoveX]

\* PipeSystem::run on one entity: scroll, then delete when past the left edge
PipeOne(p, dt) ==
  LET nx == p.x + PIPE_SCROLL * dt
  IN  [p EXCEPT !.x = nx, !.killed = p.killed \/ nx < PipeRemoveX]

PipeSystem_run(ps, dt) == [i \in 1..Len(ps) |-> PipeOne(ps[i], dt)]

\* CollisionSystem::run, the boundary test of one bird
HitsBoundary(b) == b.y - Px(BIRD_WIDTH) \div 2 > Px(VIRTUAL_HEIGHT) \div 2

\* Mutant: the pipe's rectangle is expanded by the bird's whole height.
HitsPipe_WholeHeight(b, p) ==
  LET pipe_x == p.x - Px(PIPE_WIDTH) \div 2
      pipe_y == p.y - Px(PIPE_HEIGHT) \div 2
  IN  point_in_rect(b.x, b.y,
                    pipe_x - Px(BIRD_WIDTH) \div 2,
                    pipe_y - Px(BIRD_HEIGHT),
                    pipe_x + Px(PIPE_WIDTH) + Px(BIRD_WIDTH) \div 2,
                    pipe_y + Px(PIPE_HEIGHT) + Px(BIRD_HEIGHT))

\* CollisionSystem::run, the test of one bird against one pipe
HitsPipe(b, p) ==
  LET pipe_x == p.x - Px(PIPE_WIDTH) \div 2
      pipe_y == p.y - Px(PIPE_HEIGHT) \div 2
  IN  point_in_rect(b.x, b.y,
                    pipe_x - Px(BIRD_WIDTH) \div 2,
                    pipe_y - Px(BIRD_HEIGHT) \div 2,
                    pipe_x + Px(PIPE_WIDTH) + Px(BIRD_WIDTH) \div 2,
                    pipe_y + Px(PIPE_HEIGHT) + Px(BIRD_HEIGHT) \div 2)

\* CollisionSystem::run, the test of one bird against one background entity
\* (background_x is computed from translation().y, as in the source)
HitsGround(b, g) ==
  /\ g.b_type = "Ground"
  /\ LET background_x == g.y - Px(GROUND_WIDTH) \div 2
         background_y == g.y - Px(GROUND_HEIGHT) \div 2
     IN  point_in_rect(b.x, b.y,
                       background_x - Px(BIRD_WIDTH) \div 2,
                       background_y - Px(BIRD_HEIGHT) \div 2,
                       background_x + Px(GROUND_WIDTH) + Px(BIRD_WIDTH) \div 2,
                       background_y + Px(GROUND_HEIGHT) + Px(BIRD_HEIGHT) \div 2)

\* The Collision events one bird makes CollisionSystem::run write
CollisionsOf(b, ps, bgs) ==
  (IF HitsBoundary(b) THEN 1 ELSE 0)
  + Cardinality({i \in 1..Len(ps) : HitsPipe(b, ps[i])})
  + Cardinality({i \in 1..Len(bgs) : HitsGround(b, bgs[i])})

RECURSIVE SumCollisions(_, _, _, _)
SumCollisions(i, bs, ps, bgs) ==
  IF i > Len(bs) THEN 0
  ELSE CollisionsOf(bs[i], ps, bgs) + SumCollisions(i + 1, bs, ps, bgs)

\* CollisionSystem::run: the number of Collision events written this tick
CollisionSystem_run(bs, ps, bgs) == SumCollisions(1, bs, ps, bgs)

\* Mutant: a pipe is scored as soon as its leading edge has passed.
Scores_LeadingEdge(b, p) ==
  LET pipe_x == p.x - Px(PIPE_WIDTH) \div 2
      pipe_y == p.y + Px(PIPE_HEIGHT) \div 2
  IN  ~p.is_scored /\ pipe_x < b.x /\ pipe_y < 0

\* Mutant: the pipe's side of the gap is not tested.
Scores_BothPipes(b, p) ==
  LET pipe_x == p.x + Px(PIPE_WIDTH) \div 2
  IN  ~p.is_scored /\ pipe_x < b.x

\* ScoreSystem::run, the condition that scores a pipe for a bird
Scores(b, p) ==
  LET pipe_x == p.x + Px(PIPE_WIDTH) \div 2
      pipe_y == p.y + Px(PIPE_HEIGHT) \div 2
  IN  ~p.is_scored /\ pipe_x < b.x /\ pipe_y < 0

\* ScoreSystem::run, the inner loop: bird b over the pipes from index j on;
\* st is [bird, pipes, text]
RECURSIVE ScorePipes(_, _)
ScorePipes(j, st) ==
  IF j > Len(st.pipes) THEN st
  ELSE IF Scores(st.bird, st.pipes[j])
       THEN LET nb == [st.bird EXCEPT !.score = st.bird.score + 1]
            IN  ScorePipes(j + 1,
                  [bird  |-> nb,
                   pipes |-> [st.pipes EXCEPT ![j].is_scored = TRUE],
                   text  |-> IF st.text = <<>> THEN <<>>
                             ELSE <<to_string(nb.score)>>])
       ELSE ScorePipes(j + 1, st)

\* ScoreSystem::run, the outer loop over the birds from index i on;
\* w is [birds, pipes, text]
RECURSIVE ScoreBirds(_, _)
ScoreBirds(i, w) ==
  IF i > Len(w.birds) THEN w
  ELSE LET st == ScorePipes(1, [bird |-> w.birds[i], pipes |-> w.pipes,
                                text |-> w.text])
       IN  ScoreBirds(i + 1, [birds |-> [w.birds EXCEPT ![i] = st.bird],
                              pipes |-> st.pipes, text |-> st.text])

ScoreSystem_run(bs, ps, text) ==
  ScoreBirds(1, [birds |-> bs, pipes |-> ps, text |-> text])

\* ------------------------------------------------------------ states
IsWindow(e) == e \in WindowEvents

\* is_close_requested(&event) || is_key_down(&event, VirtualKeyCode::Escape)
IsQuit(e) == e = "Close" \/ e = "Escape"

\* Mutant: any key event that does not quit starts Play.
TitleScreenState_handle_event_AnyKey(e) ==
  IF IsWindow(e) /\ IsQuit(e) THEN "Quit"
  ELSE IF IsWindow(e) THEN "PushPlay"
  ELSE "None"

\* TitleScreenState::handle_event: the Trans it returns
TitleScreenState_handle_event(e) ==
  IF IsWindow(e) /\ IsQuit(e) THEN "Quit"
  ELSE IF IsWindow(e) /\ e = "Space" THEN "PushPlay"
  ELSE "None"

\* Mutant: Play pops itself on the jump key.
PlayState_handle_event_PopsOnSpace(e) ==
  IF IsWindow(e) /\ IsQuit(e) THEN "Quit"
  ELSE IF e = "Collision" THEN "PushPause"
  ELSE IF e = "Space" THEN "Pop"
  ELSE "None"

\* PlayState::handle_event
PlayState_handle_event(e) ==
  IF IsWindow(e) /\ IsQuit(e) THEN "Quit"
  ELSE IF e = "Collision" THEN "PushPause"
  ELSE "None"

\* Mutant: Pause does not quit on Escape.
PauseState_handle_event_NoEscape(e) ==
  IF IsWindow(e)
  THEN IF e = "Space" THEN "Pop" ELSE IF e = "Close" THEN "Quit" ELSE "None"
  ELSE "None"

\* Mutant: Pause reacts to a Collision as Play does.
PauseState_handle_event_Collides(e) ==
  IF e = "Collision" THEN "PushPause"
  ELSE IF IsWindow(e)
  THEN IF e = "Space" THEN "Pop" ELSE IF IsQuit(e) THEN "Quit" ELSE "None"
  ELSE "None"

\* PauseState::handle_event
PauseState_handle_event(e) ==
  IF IsWindow(e)
  THEN IF e = "Space" THEN "Pop" ELSE IF IsQuit(e) THEN "Quit" ELSE "None"
  ELSE "None"

\* fn set_score_font: the text it leaves and the text it returns
set_score_font(text, str) ==
  IF text # <<>> THEN [text |-> <<str>>, last |-> text[1]]
  ELSE [text |-> text, last |-> "0"]

UiTitles == {"title", "sub_title"}

\* UiFinder::find: the names among ns of ui entities that exist
Found(ns, loaded) == IF loaded THEN ns ELSE {}

ShowTitlePanic == "Error while trying to show title!"
ShowSubTitlePanic == "Error while trying to show sub_title!"

\* TitleScreenState::on_pause and PlayState::on_resume: insert Hidden on
\* the title and on the sub_title, each if UiFinder finds it
HideTitles(h, loaded) == h \cup Found(UiTitles, loaded)

\* PlayState::on_pause: remove Hidden from the title and from the sub_title,
\* each if UiFinder finds it; remove() of an entity that has no Hidden gives
\* None and expect() panics
ShowTitles(h, loaded) ==
  IF "title" \in Found(UiTitles, loaded) /\ "title" \notin h
    THEN [hidden |-> h, panic |-> ShowTitlePanic]
  ELSE IF "sub_title" \in Found(UiTitles, loaded) /\ "sub_title" \notin h
    THEN [hidden |-> h \ Found({"title"}, loaded), panic |-> ShowSubTitlePanic]
  ELSE [hidden |-> h \ Found(UiTitles, loaded), panic |-> ""]

\* TitleScreenState::on_pause: hide title and sub_title
TitleScreenState_on_pause(h, loaded) == HideTitles(h, loaded)

\* PlayState::on_start: the timer, the score text, the bird
PlayState_on_start ==
  /\ pipe_spawn_timer' = <<Px(2)>>
  /\ scoreText' = <<"0">>
  /\ birds' = Append(birds, NewBird)
  /\ spawned' = 0
  /\ since_spawn' = 0

\* Mutant: the pause leaves the pipes in the store.
PlayState_on_pause_KeepsPipes ==
  LET font == set_score_font(scoreText, "")
  IN  /\ pipes' = pipes
      /\ birds' = DeleteAll(birds)
      /\ scoreText' = font.text
      /\ hidden' = ShowTitles(hidden, ui_loaded).hidden
      /\ panic' = ShowTitles(hidden, ui_loaded).panic
      /\ titleText' = IF "title" \in Found(UiTitles, ui_loaded) /\ panic' = ""
                      THEN FinalScoreText(font.last) ELSE titleText

\* PlayState::on_pause: delete pipes and birds, clear the score text, show
\* the titles that are found (a panic if one is not hidden), write the final
\* score into the title if it is found
PlayState_on_pause ==
  LET font == set_score_font(scoreText, "")
  IN  /\ pipes' = DeleteAll(pipes)
      /\ birds' = DeleteAll(birds)
      /\ scoreText' = font.text
      /\ hidden' = ShowTitles(hidden, ui_loaded).hidden
      /\ panic' = ShowTitles(hidden, ui_loaded).panic
      /\ titleText' = IF "title" \in Found(UiTitles, ui_loaded) /\ panic' = ""
                      THEN FinalScoreText(font.last) ELSE titleText

\* Mutant: the resume leaves the score text as the pause left it.
PlayState_on_resume_KeepsText ==
  /\ scoreText' = scoreText
  /\ birds' = Append(birds, NewBird)
  /\ hidden' = HideTitles(hidden, ui_loaded)
  /\ spawned' = 0

\* Mutant: the resume creates no bird.
PlayState_on_resume_NoBird ==
  /\ scoreText' = set_score_font(scoreText, "0").text
  /\ birds' = birds
  /\ hidden' = HideTitles(hidden, ui_loaded)
  /\ spawned' = 0

\* PlayState::on_resume: score text "0", a new bird, hide the titles that
\* are found
PlayState_on_resume ==
  /\ scoreText' = set_score_font(scoreText, "0").text
  /\ birds' = Append(birds, NewBird)
  /\ hidden' = HideTitles(hidden, ui_loaded)
  /\ spawned' = 0

\* StateMachine::transition (amethyst) on the Trans a handler returned
Transition(trans) ==
  CASE trans = "None" ->
         UNCHANGED <<phase, running, birds, pipes, pipe_spawn_timer,
                     scoreText, titleText, hidden, panic, spawned,
                     since_spawn>>
    [] trans = "Quit" ->
         /\ phase' = <<>>
         /\ running' = FALSE
         /\ UNCHANGED <<birds, pipes, pipe_spawn_timer, scoreText, titleText,
                        hidden, panic, spawned, since_spawn>>
    [] trans = "PushPlay" ->
         /\ hidden' = TitleScreenState_on_pause(hidden, ui_loaded)
         /\ phase' = Append(phase, "Play")
         /\ PlayState_on_start
         /\ UNCHANGED <<running, pipes, titleText, panic>>
    [] trans = "PushPause" ->
         /\ PlayState_on_pause
         /\ phase' = IF panic' = "" THEN Append(phase, "Pause") ELSE phase
         /\ UNCHANGED <<running, pipe_spawn_timer, spawned, since_spawn>>
    [] trans = "Pop" ->
         /\ phase' = SubSeq(phase, 1, Len(phase) - 1)
         /\ PlayState_on_resume
         /\ UNCHANGED <<running, pipes, pipe_spawn_timer, titleText, panic,
                        since_spawn>>

\* The engine's InputSystem on the frame's window events
RECURSIVE InputSystem_run(_, _, _)
InputSystem_run(down, evs, i) ==
  IF i > Len(evs) THEN down
  ELSE InputSystem_run(IF evs[i] = "Space" THEN TRUE
                       ELSE IF evs[i] = "SpaceUp" THEN FALSE ELSE down,
                       evs, i + 1)

\* ------------------------------------------------------------ the frame
\* TitleScreenState::on_start: the Background and the Ground entity
InitBackgrounds ==
  << [b_type |-> "Background", scroll_pos |-> 0,
      x |-> Px(BACKGROUND_LOOPING_OFFSET), y |-> 0],
     [b_type |-> "Ground", scroll_pos |-> 0,
      x |-> Px(BACKGROUND_LOOPING_OFFSET),
      y |-> 0 - Px(VIRTUAL_HEIGHT - GROUND_HEIGHT) \div 2] >>

\* The state after TitleScreenState::on_start
Init ==
  /\ phase = <<"Title">>
  /\ running = TRUE
  /\ pc = "read"
  /\ events = <<>>
  /\ cursor = 0
  /\ frame = 0
  /\ channel = 0
  /\ keyDown = FALSE
  /\ delta_seconds = 0
  /\ birds = <<>>
  /\ pipes = <<>>
  /\ backgrounds = InitBackgrounds
  /\ pipe_spawn_timer = <<>>
  /\ scoreText = <<>>
  /\ titleText = UiTitleText
  /\ hidden = {}
  /\ ui_loaded = FALSE
  /\ panic = ""
  /\ spawned = 0
  /\ key_was_down = FALSE
  /\ since_spawn = 0

\* MyStateEventReader::read: the window events, then the game events
BeginFrame ==
  /\ running /\ panic = "" /\ pc = "read" /\ frame < MaxFrames
  /\ \E w \in {<<>>} \cup {<<e>> : e \in WindowEvents} :
       events' = w \o [i \in 1..channel |-> "Collision"]
  /\ channel' = 0
  /\ cursor' = 0
  /\ frame' = frame + 1
  /\ pc' = "handle"
  /\ UNCHANGED <<phase, running, keyDown, delta_seconds, birds, pipes,
                 backgrounds, pipe_spawn_timer, scoreText, titleText, hidden,
                 ui_loaded, panic, spawned, key_was_down, since_spawn>>

Delivering == running /\ panic = "" /\ pc = "handle" /\ cursor < Len(events)

NextEvent == events[cursor + 1]

Delivered ==
  /\ cursor' = cursor + 1
  /\ UNCHANGED <<pc, events, frame, channel, keyDown, delta_seconds,
                 backgrounds, ui_loaded, key_was_down>>

TitleHandleEvent ==
  /\ Delivering /\ Top(phase) = "Title"
  /\ Transition(TitleScreenState_handle_event(NextEvent))
  /\ Delivered

PlayHandleEvent ==
  /\ Delivering /\ Top(phase) = "Play"
  /\ Transition(PlayState_handle_event(NextEvent))
  /\ Delivered

PauseHandleEvent ==
  /\ Delivering /\ Top(phase) = "Pause"
  /\ Transition(PauseState_handle_event(NextEvent))
  /\ Delivered

Updating == running /\ panic = "" /\ pc = "handle" /\ cursor = Len(events)

\* GameData::update (BackgroundSystem, InputSystem, the ui systems: the
\* prefab of ui/text.ron, loaded asynchronously, becomes entities in some
\* update, or in none); the frame's events are drained, and the next step
\* reads the channels again.  The engine sets
\* Time before the frame's events are delivered; no handler reads it, so
\* the model draws dt where update reads it and records it here.
GameDataUpdate(dt) ==
  /\ delta_seconds' = dt
  /\ backgrounds' = BackgroundSystem_run(backgrounds, dt)
  /\ keyDown' = InputSystem_run(keyDown, events, 1)
  /\ key_was_down' = keyDown
  /\ events' = <<>>
  /\ cursor' = 0
  /\ pc' = "read"
  /\ \E loaded \in {ui_loaded, TRUE} : ui_loaded' = loaded
  /\ UNCHANGED <<phase, running, frame, titleText, hidden, panic>>

\* TitleScreenState::update
TitleUpdate ==
  /\ Updating /\ Top(phase) = "Title"
  /\ \E dt \in DtSet : GameDataUpdate(dt)
  /\ birds' = Maintain(birds)
  /\ pipes' = Maintain(pipes)
  /\ UNCHANGED <<channel, pipe_spawn_timer, scoreText, spawned, since_spawn>>

\* Mutant: the timer runs on while the phase is Pause.
PauseUpdate_Counts ==
  /\ Updating /\ Top(phase) = "Pause"
  /\ \E dt \in DtSet :
       /\ GameDataUpdate(dt)
       /\ pipe_spawn_timer' = <<pipe_spawn_timer[1] - dt>>
  /\ birds' = Maintain(birds)
  /\ pipes' = Maintain(pipes)
  /\ UNCHANGED <<channel, scoreText, spawned, since_spawn>>

\* PauseState::update
PauseUpdate ==
  /\ Updating /\ Top(phase) = "Pause"
  /\ \E dt \in DtSet : GameDataUpdate(dt)
  /\ birds' = Maintain(birds)
  /\ pipes' = Maintain(pipes)
  /\ UNCHANGED <<channel, pipe_spawn_timer, scoreText, spawned, since_spawn>>

\* Mutant: a spawn creates the lower pipe only.
SpawnPair_Single(random_y, n) ==
  << NewPipe(Px(VIRTUAL_WIDTH) \div 2 + Px(PIPE_WIDTH),
             0 - Px(VIRTUAL_HEIGHT) \div 2 + random_y - Px(PIPE_GAP) \div 2,
             FALSE, n) >>

\* PlayState::update, the two pipes a spawn creates
SpawnPair(random_y, n) ==
  << NewPipe(Px(VIRTUAL_WIDTH) \div 2 + Px(PIPE_WIDTH),
             0 - Px(VIRTUAL_HEIGHT) \div 2 + random_y - Px(PIPE_GAP) \div 2,
             FALSE, n),
     NewPipe(Px(VIRTUAL_WIDTH) \div 2 + Px(PIPE_WIDTH),
             Px(VIRTUAL_HEIGHT) \div 2 + random_y + Px(PIPE_GAP) \div 2,
             TRUE, n) >>

\* PlayState::update, the dispatcher (BirdSystem, PipeSystem, then
\* CollisionSystem and ScoreSystem), GameData::update and world.maintain()
Dispatch(dt, ps) ==
  LET bs1 == BirdSystem_run(birds, dt, keyDown)
      ps1 == PipeSystem_run(ps, dt)
      sc  == ScoreSystem_run(bs1, ps1, scoreText)
  IN  /\ channel' = channel + CollisionSystem_run(bs1, ps1, backgrounds)
      /\ birds' = Maintain(sc.birds)
      /\ pipes' = Maintain(sc.pipes)
      /\ scoreText' = sc.text
      /\ GameDataUpdate(dt)

\* PlayState::update
PlayUpdate ==
  /\ Updating /\ Top(phase) = "Play"
  /\ \E dt \in DtSet :
       LET timer == pipe_spawn_timer[1] - dt
       IN  IF timer <= 0
           THEN \E random_y \in RandomYs, t \in TimerSet :
                  /\ pipe_spawn_timer' = <<t>>
                  /\ spawned' = spawned + 1
                  /\ since_spawn' = 0
                  /\ Dispatch(dt, pipes \o SpawnPair(random_y, spawned + 1))
           ELSE /\ pipe_spawn_timer' = <<timer>>
                /\ spawned' = spawned
                /\ since_spawn' = since_spawn + dt
                /\ Dispatch(dt, pipes)

Next ==
  \/ BeginFrame
  \/ TitleHandleEvent
  \/ PlayHandleEvent
  \/ PauseHandleEvent
  \/ TitleUpdate
  \/ PlayUpdate
  \/ PauseUpdate

Spec == Init /\ [][Next]_vars

HalfPipeWidth == Px(PIPE_WIDTH) \div 2

\* ------------------------------------------------------------ one tick
\* A second specification: Play at the start of a tick, with the bird and a
\* pipe pair placed so that the tick brings the bird onto the Ground or onto
\* an edge of a pipe's collision rectangle.  The placements are states of a
\* running session: one bird at x = 0, a pair as SpawnPair makes it, scrolled
\* left, flags and score as ScoreSystem leaves them, and no collision (a
\* collision would have ended the session one frame earlier).

\* Frames a run of this specification has.
TickFrames == 2

\* The bird before the tick: [y, dy].
TickBirds ==
  { [y |-> 0, dy |-> 0],
    [y |-> Px(-100), dy |-> 0],
    [y |-> Px(-60), dy |-> 0],
    [y |-> Px(-79), dy |-> Px(-4)],
    [y |-> Px(-79) + 1, dy |-> Px(-4)],
    [y |-> Px(79) - 2, dy |-> Px(4)],
    [y |-> Px(79) - 3, dy |-> Px(4)] }

\* The x of the pair before the tick.
TickPipeXs ==
  { Px(200), Px(114), Px(114) + 1, Px(20), Px(6), Px(6) - 1 }

TickPipes(px, random_y) ==
  LET pair == SpawnPair(random_y, 1)
  IN  [i \in 1..2 |->
         [pair[i] EXCEPT !.x = px,
                         !.is_scored = (i = 1 /\ px + HalfPipeWidth < 0)]]

InitPlaying(bs, ps, n, ui) ==
  /\ phase = <<"Title", "Play">>
  /\ running = TRUE
  /\ pc = "read"
  /\ events = <<>>
  /\ cursor = 0
  /\ frame = MaxFrames - n
  /\ channel = 0
  /\ keyDown = FALSE
  /\ delta_seconds = 0
  /\ birds = bs
  /\ pipes = ps
  /\ backgrounds = InitBackgrounds
  /\ pipe_spawn_timer = <<2 * Scale>>
  /\ scoreText = <<to_string(bs[1].score)>>
  /\ titleText = UiTitleText
  /\ hidden = ui.hidden
  /\ ui_loaded = ui.loaded
  /\ panic = ""
  /\ spawned = bs[1].score + (IF ps[1].is_scored THEN 0 ELSE 1)
  /\ key_was_down = FALSE
  /\ since_spawn = 0

\* The pairs the bird has passed before the pair in the store.
TickScores == {0, 9}

\* The ui entities in a session that began after the prefab was loaded
\* (TitleScreenState::on_pause found and hid the titles).
UiHidden == [loaded |-> TRUE, hidden |-> UiTitles]

\* The ui entities in Play: as above; or the session began before the prefab
\* was loaded (on_pause found nothing to hide) and it was loaded since, or
\* it is not loaded yet.
TickUis ==
  { UiHidden,
    [loaded |-> TRUE, hidden |-> {}],
    [loaded |-> FALSE, hidden |-> {}] }

InitTick ==
  \E b \in TickBirds, px \in TickPipeXs, random_y \in RandomYs,
     passed \in TickScores, ui \in TickUis :
    LET ps == TickPipes(px, random_y)
        bs == << [NewBird EXCEPT !.y = b.y, !.dy = b.dy,
                                 !.score = passed
                                            + IF ps[1].is_scored THEN 1 ELSE 0] >>
    IN  /\ CollisionSystem_run(bs, ps, InitBackgrounds) = 0
        /\ InitPlaying(bs, ps, TickFrames, ui)

\* With Play pushed, Title is never again the top of the stack.
NextPlaying ==
  \/ BeginFrame
  \/ PlayHandleEvent
  \/ PauseHandleEvent
  \/ PlayUpdate
  \/ PauseUpdate

SpecTick == InitTick /\ [][NextPlaying]_vars

\* A third specification: Play at the start of a tick with a pair at the left
\* edge.  PipeRemoveX - 1 is a place no tick leaves a pipe at: it is where
\* the removal test of the specification puts one before the tick.
RemovalXs ==
  { PipeRemoveX - 1, PipeRemoveX, PipeRemoveX + 1,
    PipeRemoveX - PIPE_SCROLL * Scale - 1, PipeRemoveX - PIPE_SCROLL * Scale,
    PipeRemoveX - PIPE_SCROLL * Scale + 1 }

InitRemoval ==
  \E px \in RemovalXs, random_y \in RandomYs :
    /\ InitPlaying(<<[NewBird EXCEPT !.score = 1]>>,
                   TickPipes(px, random_y), TickFrames, UiHidden)

SpecRemoval == InitRemoval /\ [][NextPlaying]_vars

\* ---------------------------------------------------------------------------
\* A session in which the jump key is never down: Play states with the key
\* up, frames that bring no window event, and ticks with dt > 0.
\* ---------------------------------------------------------------------------

\* The frames of a run of SpecFall.
FallFrames == 5

\* The x of the pair before the first tick: right of the bird.
FallPipeX == Px(200)

InitFall ==
  \E b \in TickBirds, random_y \in RandomYs :
    LET ps == TickPipes(FallPipeX, random_y)
        bs == << [NewBird EXCEPT !.y = b.y, !.dy = b.dy] >>
    IN  /\ CollisionSystem_run(bs, ps, InitBackgrounds) = 0
        /\ InitPlaying(bs, ps, FallFrames, UiHidden)

\* MyStateEventReader::read in a frame without window events
FallBeginFrame ==
  /\ BeginFrame
  /\ \A i \in 1..Len(events') : events'[i] = "Collision"

\* PlayState::update with delta_seconds > 0
FallPlayUpdate ==
  /\ PlayUpdate
  /\ delta_seconds' > 0

NextFall ==
  \/ FallBeginFrame
  \/ PlayHandleEvent
  \/ PauseHandleEvent
  \/ FallPlayUpdate
  \/ PauseUpdate

\* The engine's main loop runs frame after frame while the stack is not
\* empty: a step that is enabled is eventually taken.
SpecFall == InitFall /\ [][NextFall]_vars /\ WF_vars(NextFall)

\* ------------------------------------------------------------ claims
PhaseTitlePlayPause == <<"Title", "Play", "Pause">>

\* A Collision event of this frame was already delivered and another one
\* is the next event to deliver.
C1_ExtraDelivery ==
  /\ Delivering
  /\ NextEvent = "Collision"
  /\ \E i \in 1..cursor : events[i] = "Collision"

\* C1: when a tick wrote two or more Collision events, the first one pushes
\* Pause on top of Play and every later one is delivered to Pause and changes
\* nothing: not the stack (one Pause layer), not the final score written
\* into the title, not the score text, not the entities.
C1_CollisionIdempotent ==
  [][C1_ExtraDelivery =>
       /\ phase = PhaseTitlePlayPause
       /\ phase' = phase
       /\ titleText' = titleText
       /\ scoreText' = scoreText
       /\ birds' = birds
       /\ pipes' = pipes
       /\ running' = running]_vars

\* C1 witness: the second Collision event of a frame has been delivered.
C1_Witness ==
  /\ pc = "handle"
  /\ cursor >= 2
  /\ events[cursor] = "Collision"
  /\ events[cursor - 1] = "Collision"
  /\ phase = PhaseTitlePlayPause

\* C3: while the program runs (it has not quit and has not panicked),
\* exactly one live Bird exists when Play is the active phase and none when
\* Title or Pause is (an entity on which delete was called is not live).
C3_OnePlayerInPlay ==
  (running /\ panic = "" /\ phase # <<>>) =>
     /\ Top(phase) = "Play" => Cardinality(Live(birds)) = 1
     /\ Top(phase) \in {"Title", "Pause"} => Cardinality(Live(birds)) = 0

\* C3 witness: Play is active again after a pause (the title holds a final
\* score) with its one bird, which has already been moved by a tick.
C3_Witness ==
  /\ running
  /\ phase = <<"Title", "Play">>
  /\ titleText # UiTitleText
  /\ Cardinality(Live(birds)) = 1
  /\ pc = "read"

\* C7: every ScrollingBackground entity has 0 <= scroll_pos < the looping
\* point and x = the looping offset - scroll_pos, in every phase.
C7_ScrollWrap ==
  \A i \in 1..Len(backgrounds) :
    /\ 0 <= backgrounds[i].scroll_pos
    /\ backgrounds[i].scroll_pos < Px(BACKGROUND_LOOPING_POINT)
    /\ backgrounds[i].x = Px(BACKGROUND_LOOPING_OFFSET) - backgrounds[i].scroll_pos

\* C7 witness: the Ground, which scrolls faster, is behind the Background:
\* an offset has wrapped; seen while paused.
C7_Witness ==
  /\ phase = PhaseTitlePlayPause
  /\ backgrounds[1].scroll_pos > 0
  /\ backgrounds[2].scroll_pos < backgrounds[1].scroll_pos

Abs(v) == IF v < 0 THEN 0 - v ELSE v

\* The pairs in the store whose trailing edge has not passed bird b.
PairsNotPassed(b) ==
  {pipes[j].pair : j \in {k \in 1..Len(pipes) : pipes[k].x + HalfPipeWidth >= b.x}}

\* C2: for the live bird, the score is the number of pairs spawned in its
\* session less the pairs whose trailing edge has not yet passed it: every
\* pair that crossed the player counts exactly 1, also after it has gone
\* off-screen; and a pipe's scored flag is set exactly on the lower
\* (unrotated) member of a pair that has passed, never on the upper one.
C2_OnePointPerPair ==
  \A i \in Live(birds) :
    /\ birds[i].score = spawned - Cardinality(PairsNotPassed(birds[i]))
    /\ \A j \in 1..Len(pipes) :
         pipes[j].is_scored <=>
           (~pipes[j].rot /\ pipes[j].x + HalfPipeWidth < birds[i].x)

\* C2 witness: two pairs were spawned and crossed; the first has gone
\* off-screen, the lower pipe of the second is still in the store, scored,
\* and the bird lives with score 2.
C2_Witness ==
  /\ phase = <<"Title", "Play">>
  /\ pc = "read"
  /\ channel = 0
  /\ \E i \in Live(birds) : birds[i].score = 2
  /\ \A j \in 1..Len(pipes) : pipes[j].pair # 1
  /\ \E j \in 1..Len(pipes) : pipes[j].is_scored

\* The step that delivers the jump key to Pause.
C4_Resume == Delivering /\ Top(phase) = "Pause" /\ NextEvent = "Space"

\* C4: the jump key in Pause makes Play the active phase; right after that
\* step no pipe is in the store, exactly one bird exists, at (0, 0) with
\* dy 0 and score 0, and the score text is "0".
C4_ResumeFresh ==
  [][C4_Resume =>
       /\ phase' = <<"Title", "Play">>
       /\ pipes' = <<>>
       /\ Len(birds') = 1
       /\ birds'[1].x = 0 /\ birds'[1].y = 0
       /\ birds'[1].dy = 0 /\ birds'[1].score = 0
       /\ ~birds'[1].killed
       /\ scoreText' = <<"0">>]_vars

\* C4 witness: Space has just been delivered, Play is active with its fresh
\* bird, and the title holds the final score of the session before.
C4_Witness ==
  /\ pc = "handle"
  /\ cursor = 1
  /\ events[1] = "Space"
  /\ phase = <<"Title", "Play">>
  /\ titleText # UiTitleText
  /\ birds = <<NewBird>>
  /\ pipes = <<>>

\* The step that delivers an event to Title.
C5_TitleDelivery == Delivering /\ Top(phase) = "Title"

\* C5: the first phase is Title; Space in Title makes the phase Play with
\* one bird at the origin, score 0, score text "0", no pipes and the timer
\* at 2 s; close or Escape stops the machine; any other event, a Collision
\* too, leaves the phase alone; and the phase leaves Title in no other step.
C5_TitleToPlay ==
  /\ phase = <<"Title">>
  /\ TitleScreenState_handle_event("Collision") = "None"
  /\ [][/\ (C5_TitleDelivery /\ NextEvent = "Space") =>
             /\ phase' = <<"Title", "Play">>
             /\ birds' = <<NewBird>>
             /\ birds'[1].x = 0 /\ birds'[1].y = 0 /\ birds'[1].score = 0
             /\ scoreText' = <<"0">>
             /\ pipes' = <<>>
             /\ pipe_spawn_timer' = <<2 * Scale>>
        /\ (C5_TitleDelivery /\ NextEvent \in {"Close", "Escape"}) => ~running'
        /\ (C5_TitleDelivery /\ NextEvent \notin {"Close", "Escape", "Space"}) =>
             phase' = phase
        /\ (phase = <<"Title">> /\ phase' # phase) =>
             (C5_TitleDelivery /\ NextEvent \in {"Close", "Escape", "Space"})
       ]_vars

\* C5 witness: Space has just been delivered to Title: Play is active for
\* the first time (the title text is still the one of the ui file).
C5_Witness ==
  /\ pc = "handle"
  /\ cursor = 1
  /\ events[1] = "Space"
  /\ phase = <<"Title", "Play">>
  /\ titleText = UiTitleText
  /\ birds = <<NewBird>>
  /\ pipe_spawn_timer = <<2 * Scale>>

\* The rectangles of bird b and of the Ground overlap (touching counts).
OverlapsGround(b, bgs) ==
  \E i \in 1..Len(bgs) :
    /\ bgs[i].b_type = "Ground"
    /\ 2 * Abs(b.x - bgs[i].x) <= Px(BIRD_WIDTH + GROUND_WIDTH)
    /\ 2 * Abs(b.y - bgs[i].y) <= Px(BIRD_HEIGHT + GROUND_HEIGHT)

\* The rectangles of bird b and of pipe p overlap (touching counts).
OverlapsPipe(b, p) ==
  /\ 2 * Abs(b.x - p.x) <= Px(BIRD_WIDTH + PIPE_WIDTH)
  /\ 2 * Abs(b.y - p.y) <= Px(BIRD_HEIGHT + PIPE_HEIGHT)

\* A step of PlayState::update.
PlayTick == Updating /\ Top(phase) = "Play" /\ pc' = "read"

\* The bird of the store overlaps the Ground and nothing else.
C6_GroundOnly(bs, ps, bgs) ==
  /\ Len(bs) = 1
  /\ OverlapsGround(bs[1], bgs)
  /\ ~HitsBoundary(bs[1])
  /\ \A j \in 1..Len(ps) : ~OverlapsPipe(bs[1], ps[j])

CollisionsIn(evs) == {i \in 1..Len(evs) : evs[i] = "Collision"}

\* C6 (as claimed): a Play tick that leaves the bird on the Ground (and on
\* nothing else) writes exactly one Collision event; the events written by
\* a tick are all read at the start of the next frame; once one of them has
\* been delivered the phase is Pause; and Play's update never runs with a
\* Collision written and not yet delivered.
C6_GroundCollisionPauses ==
  /\ [](running /\ pc = "handle" /\ (\E i \in 1..cursor : events[i] = "Collision")
          => Top(phase) = "Pause")
  /\ [][/\ (PlayTick /\ C6_GroundOnly(birds', pipes', backgrounds')) =>
             (channel = 0 /\ channel' = 1)
        /\ PlayTick => channel = 0
        /\ (pc = "read" /\ pc' = "handle") =>
             (Cardinality(CollisionsIn(events')) = channel /\ channel' = 0)
        /\ (Delivering /\ Top(phase) = "Play" /\ NextEvent = "Collision") =>
             phase' = PhaseTitlePlayPause
       ]_vars

\* The one Collision of a tick that left the bird on the Ground only has
\* been delivered to Play, and PlayState::on_pause has panicked: the phase
\* is not Pause.
C6_Panicked ==
  /\ pc = "handle"
  /\ phase = <<"Title", "Play">>
  /\ panic = ShowTitlePanic
  /\ Cardinality(CollisionsIn(events)) = 1
  /\ C6_GroundOnly(birds, pipes, backgrounds)

\* Bird b is wholly below the bottom edge of the playfield.
BelowBottom(b) == 2 * b.y + Px(BIRD_HEIGHT) < 0 - Px(VIRTUAL_HEIGHT)

\* C8 (as claimed): after every Play tick that leaves the bird below the
\* bottom of the playfield, a Collision event has been written in that tick.
C8_BottomBoundaryCollides ==
  (running /\ phase = <<"Title", "Play">> /\ pc = "read") =>
     \A i \in Live(birds) : BelowBottom(birds[i]) => channel >= 1

\* The centre of bird b lies in the rectangle of pipe p (PIPE_WIDTH x
\* PIPE_HEIGHT around its centre) grown by half the bird on every side,
\* edges included.
InExpandedRect(b, p) ==
  /\ p.x - HalfPipeWidth - Px(BIRD_WIDTH) \div 2 <= b.x
  /\ b.x <= p.x + HalfPipeWidth + Px(BIRD_WIDTH) \div 2
  /\ p.y - Px(PIPE_HEIGHT) \div 2 - Px(BIRD_HEIGHT) \div 2 <= b.y
  /\ b.y <= p.y + Px(PIPE_HEIGHT) \div 2 + Px(BIRD_HEIGHT) \div 2

\* The centre of bird b lies on an edge of that rectangle.
OnExpandedEdge(b, p) ==
  /\ InExpandedRect(b, p)
  /\ \/ 2 * Abs(b.x - p.x) = Px(PIPE_WIDTH + BIRD_WIDTH)
     \/ 2 * Abs(b.y - p.y) = Px(PIPE_HEIGHT + BIRD_HEIGHT)

\* C9: the Collision events a Play tick writes for the pipes are one for
\* each pipe whose expanded rectangle (edges included) holds the bird's
\* centre after the tick, and none for any other pipe.
C9_PipeCollisionIffInRect ==
  [][PlayTick =>
       /\ Len(birds') = 1
       /\ channel' - channel =
            Cardinality({j \in 1..Len(pipes') : InExpandedRect(birds'[1], pipes'[j])})
            + (IF HitsBoundary(birds'[1]) THEN 1 ELSE 0)
            + (IF OverlapsGround(birds'[1], backgrounds) THEN 1 ELSE 0)
    ]_vars

\* C9 witness: after a tick the bird's centre is exactly on an edge of a
\* pipe's expanded rectangle, off the Ground and inside the boundary, and
\* the tick has written one Collision.
C9_Witness ==
  /\ pc = "read"
  /\ phase = <<"Title", "Play">>
  /\ channel = 1
  /\ Len(birds) = 1
  /\ ~HitsBoundary(birds[1])
  /\ ~OverlapsGround(birds[1], backgrounds)
  /\ \E j \in 1..Len(pipes) : OnExpandedEdge(birds[1], pipes[j])

\* Pipe j of the store is in the store after the step.
Retained(j) ==
  \E k \in 1..Len(pipes') :
    pipes'[k].pair = pipes[j].pair /\ pipes'[k].rot = pipes[j].rot

\* C10 (as claimed): a Play tick removes every pipe that is left of
\* PipeRemoveX before the tick and keeps every pipe that is right of it
\* before the tick.
C10_ThresholdBeforeTick ==
  [][PlayTick =>
       \A j \in 1..Len(pipes) :
         /\ pipes[j].x < PipeRemoveX => ~Retained(j)
         /\ pipes[j].x > PipeRemoveX => Retained(j)
    ]_vars

\* C10 (amended): a Play tick removes exactly the pipes whose x, after the
\* tick's scroll of PIPE_SCROLL * dt, is left of PipeRemoveX; so a pipe left
\* of PipeRemoveX before the tick is always removed, and one right of it is
\* kept only if the scroll does not carry it past PipeRemoveX.
C10_ThresholdAfterScroll ==
  [][PlayTick =>
       \A j \in 1..Len(pipes) :
         /\ Retained(j) <=>
              pipes[j].x + PIPE_SCROLL * delta_seconds' >= PipeRemoveX
         /\ pipes[j].x < PipeRemoveX => ~Retained(j)
    ]_vars

\* C10 witness: a tick of one second has just run; the pair that came to be
\* exactly at PipeRemoveX is in the store, and the score pair count shows
\* no other pair was spawned.
C10_Witness ==
  /\ pc = "read"
  /\ phase = <<"Title", "Play">>
  /\ delta_seconds = Scale
  /\ Len(pipes) = 2
  /\ \A j \in 1..2 : pipes[j].x = PipeRemoveX /\ pipes[j].pair = 1

\* The pairs (by the number of the spawn that made them) in a pipe store.
PairsOf(ps) == {ps[j].pair : j \in 1..Len(ps)}

\* The pipes of store ps that spawn n made.
PipesOfPair(ps, n) == {j \in 1..Len(ps) : ps[j].pair = n}

\* The timer of this tick, after dt was subtracted, is <= 0.
TimerExpires == pipe_spawn_timer[1] - delta_seconds' <= 0

\* The x a pipe created in this tick has after the tick's scroll.
SpawnedX == Px(VIRTUAL_WIDTH) \div 2 + Px(PIPE_WIDTH) + PIPE_SCROLL * delta_seconds'

\* The two pipes of pair n in ps are a lower, unrotated pipe and an upper,
\* rotated one at the same x, placed around one gap offset g in [-40, 40).
MirroredPair(ps, n, px) ==
  \E lo, up \in PipesOfPair(ps, n) :
    /\ PipesOfPair(ps, n) = {lo, up}
    /\ lo # up
    /\ ~ps[lo].rot /\ ps[up].rot
    /\ ps[lo].x = px /\ ps[up].x = px
    /\ LET g == ps[lo].y + Px(VIRTUAL_HEIGHT) \div 2 + Px(PIPE_GAP) \div 2
       IN  /\ Px(-40) <= g /\ g < Px(40)
           /\ ps[up].y = Px(VIRTUAL_HEIGHT) \div 2 + g + Px(PIPE_GAP) \div 2
    /\ (ps[up].y - Px(PIPE_HEIGHT) \div 2) - (ps[lo].y + Px(PIPE_HEIGHT) \div 2)
         = Px(PIPE_GAP)

\* C11: a Play tick whose timer, less dt, is <= 0 creates one pair and no
\* more, however large dt is: after the tick the store holds, besides pipes
\* it held before, exactly the two pipes of the new pair (unless the tick's
\* own scroll already took them past the left edge), at the spawn x scrolled
\* by this tick, the lower one unrotated and the upper one rotated around
\* one gap offset in [-40, 40), PIPE_GAP apart, the upper one not scored; a
\* tick whose timer stays > 0 adds no pipe.
C11_SpawnPairs ==
  [][PlayTick =>
       IF TimerExpires
       THEN /\ spawned' = spawned + 1
            /\ PairsOf(pipes') \subseteq PairsOf(pipes) \cup {spawned'}
            /\ IF SpawnedX >= PipeRemoveX
               THEN /\ MirroredPair(pipes', spawned', SpawnedX)
                    /\ \A j \in PipesOfPair(pipes', spawned') :
                         pipes'[j].is_scored =>
                           (~pipes'[j].rot /\ SpawnedX + HalfPipeWidth < 0)
               ELSE PipesOfPair(pipes', spawned') = {}
            /\ Len(pipes') <= Len(pipes) + 2
       ELSE /\ spawned' = spawned
            /\ PairsOf(pipes') \subseteq PairsOf(pipes)
            /\ Len(pipes') <= Len(pipes)
    ]_vars

\* C11 witness: a tick of 5 s, more than two timer periods, has just run in
\* a store that held a pair; it spawned one pair, now 300 px left of the
\* spawn x, and the store holds it whole.
C11_Witness ==
  /\ pc = "read"
  /\ phase = <<"Title", "Play">>
  /\ delta_seconds = 5 * Scale
  /\ spawned >= 2
  /\ Cardinality(PipesOfPair(pipes, spawned)) = 2
  /\ \A j \in PipesOfPair(pipes, spawned) :
       pipes[j].x = Px(VIRTUAL_WIDTH) \div 2 + Px(PIPE_WIDTH) + PIPE_SCROLL * 5 * Scale
  /\ \E j \in 1..Len(pipes) : pipes[j].pair < spawned

\* The step that delivers a close request or an Escape key press.
C12_QuitDelivery == Delivering /\ IsQuit(NextEvent)

\* C12: in Title, in Play and in Pause the delivery of a close request or of
\* Escape stops the machine (the stack is emptied); the machine runs exactly
\* while the stack holds a phase; and once it has stopped no step happens:
\* no event is delivered, no phase changes, no update runs.
C12_QuitTerminates ==
  /\ [](running <=> phase # <<>>)
  /\ [](running => Top(phase) \in {"Title", "Play", "Pause"})
  /\ [][/\ C12_QuitDelivery => (~running' /\ phase' = <<>>)
        /\ running
        /\ running' \/ C12_QuitDelivery]_vars

\* C12 witness: the machine has stopped on an Escape delivered to Pause (the
\* title holds a final score and is shown).
C12_Witness ==
  /\ ~running
  /\ phase = <<>>
  /\ events[cursor] = "Escape"
  /\ titleText # UiTitleText
  /\ hidden = {}

\* Pipe k of the store after the step is pipe j of the store before it.
SamePipe(j, k) == pipes'[k].pair = pipes[j].pair /\ pipes'[k].rot = pipes[j].rot

\* The unscored lower pipes that this tick's scroll carries past the player
\* (their trailing edge gets left of x = 0), the pair spawned in this tick
\* included.
PassedInTick ==
  Cardinality({j \in 1..Len(pipes) :
                 /\ ~pipes[j].rot /\ ~pipes[j].is_scored
                 /\ pipes[j].x + PIPE_SCROLL * delta_seconds' + HalfPipeWidth < 0})
  + (IF TimerExpires /\ SpawnedX + HalfPipeWidth < 0 THEN 1 ELSE 0)

\* A session starts: Play becomes the active phase.
SessionStart == running /\ Top(phase) # "Play" /\ running' /\ Top(phase') = "Play"

\* What C13 and its amended form share: a scored flag never goes back to
\* false, a session starts with one bird of score 0, and outside a Play tick
\* the score of a bird does not change.
C13_FlagsAndSessions ==
  /\ \A j \in 1..Len(pipes), k \in 1..Len(pipes') :
       (SamePipe(j, k) /\ pipes[j].is_scored) => pipes'[k].is_scored
  /\ SessionStart =>
       (Cardinality(Live(birds')) = 1 /\ \A i \in Live(birds') : birds'[i].score = 0)
  /\ (running /\ ~PlayTick /\ ~SessionStart) =>
       \A i \in 1..Len(birds), k \in 1..Len(birds') : birds'[k].score = birds[i].score

\* C13 (as claimed): in a session the score changes only by +1, and only in
\* a step in which a pipe's scored flag goes from false to true.
C13_ScoreStepsByOne ==
  [][/\ C13_FlagsAndSessions
     /\ PlayTick =>
          /\ birds'[1].score \in {birds[1].score, birds[1].score + 1}
          /\ birds'[1].score = birds[1].score + 1 => PassedInTick >= 1
    ]_vars

\* C13 (amended): in a session the score never decreases; a Play tick adds
\* to it exactly the number of pipes whose scored flag the tick sets (one
\* for each lower pipe that the tick carries past the player, which can be
\* two or three in one tick of a long frame); a scored flag never goes
\* back; every session starts with score 0.
C13_ScoreCountsFlags ==
  [][/\ C13_FlagsAndSessions
     /\ PlayTick =>
          /\ Len(birds) = 1 /\ Len(birds') = 1
          /\ birds'[1].score = birds[1].score + PassedInTick
          /\ birds'[1].score >= birds[1].score
    ]_vars

\* C13 witness: the third Play tick of a session has run, 13 s after its
\* start (ticks of 1 s, 1 s and 11 s: the second tick spawned a pair), and
\* the score is 2: the last tick scored the pair spawned before it and the
\* pair it spawned itself.
C13_Witness ==
  /\ pc = "read"
  /\ phase = <<"Title", "Play">>
  /\ frame = 3
  /\ titleText = UiTitleText
  /\ backgrounds[1].scroll_pos = 13 * BACKGROUND_SCROLL_SPEED * Scale
  /\ spawned = 2
  /\ birds[1].score = 2
  /\ scoreText = <<"2">>

\* The jump key is held on this tick and was not held on the tick before
\* (the update of the frame before, in whatever phase it ran).
KeyEdge == keyDown /\ ~key_was_down

\* C14 (as claimed): on every Play tick, the first of a session too, the
\* bird's dy becomes BIRD_JUMP if the key is held on this tick and was not
\* held on the tick before, and otherwise no impulse is applied: dy only
\* takes this tick's gravity (so a key held over consecutive ticks gives no
\* further impulse).
C14_EdgeTriggeredJump ==
  [][PlayTick =>
       /\ Len(birds) = 1 /\ Len(birds') = 1
       /\ birds'[1].dy = IF KeyEdge THEN Px(BIRD_JUMP)
                         ELSE birds[1].dy + BIRD_GRAVITY * delta_seconds'
    ]_vars

\* The rectangles of bird b and of pipe p overlap horizontally (touching
\* counts, as it does for the Collision test).
OverlapsHorizontally(b, p) == 2 * Abs(b.x - p.x) <= Px(BIRD_WIDTH + PIPE_WIDTH)

\* C15 (as claimed): in every state, a pipe whose scored flag is set, and
\* the other pipe of its pair, do not overlap the player horizontally, and
\* so a Play tick writes no Collision for a pipe of a scored pair.
C15_ScoredMeansPassed ==
  \A i \in Live(birds) : \A j, k \in 1..Len(pipes) :
    (pipes[j].is_scored /\ pipes[k].pair = pipes[j].pair) =>
       /\ ~OverlapsHorizontally(birds[i], pipes[k])
       /\ ~HitsPipe(birds[i], pipes[k])

\* The step that takes the phase from Play to Pause.
PlayToPause == running /\ Top(phase) = "Play" /\ running' /\ Top(phase') = "Pause"

\* C16 (as claimed): the step from Play to Pause writes "Your Score: n" into the title,
\* n the decimal score of the bird as the last Play tick left it, and
\* empties the score text; while the phase stays Pause the title text does
\* not change.
C16_FinalScoreFrozen ==
  [][/\ PlayToPause =>
          /\ Len(birds) = 1
          /\ titleText' = "Your Score: " \o Decimal(birds[1].score)
          /\ scoreText' = <<"">>
     /\ (running /\ Top(phase) = "Pause" /\ running' /\ Top(phase') = "Pause") =>
          titleText' = titleText
    ]_vars

\* C17 (as claimed): while the program runs, no title or sub_title that
\* exists is shown (without a Hidden component) when Play is the active
\* phase, and none is hidden when Title or Pause is.
C17_TitleHiddenIffPlay ==
  (running /\ panic = "") =>
    /\ Top(phase) = "Play" => Found(UiTitles, ui_loaded) \subseteq hidden
    /\ Top(phase) \in {"Title", "Pause"} => hidden \cap UiTitles = {}

\* C18: the timer a spawn leaves is in [2 s, 4 s); a Play tick that does not
\* spawn takes dt off the timer; no step in Title or Pause and no
\* transition after Play's start changes the timer; so the timer and the
\* dt summed over the Play ticks since the last spawn add up to a value in
\* [2 s, 4 s), and at every spawn (the first after a resume too) the dt
\* summed since the spawn before, this tick included, is at least 2 s.
C18_SpawnSpacing ==
  /\ [](pipe_spawn_timer # <<>> =>
          /\ pipe_spawn_timer[1] > 0
          /\ 2 * Scale <= pipe_spawn_timer[1] + since_spawn
          /\ pipe_spawn_timer[1] + since_spawn < 4 * Scale)
  /\ [][/\ (PlayTick /\ TimerExpires) =>
             /\ since_spawn + delta_seconds' >= 2 * Scale
             /\ 2 * Scale <= pipe_spawn_timer'[1]
             /\ pipe_spawn_timer'[1] < 4 * Scale
        /\ (PlayTick /\ ~TimerExpires) =>
             pipe_spawn_timer' = <<pipe_spawn_timer[1] - delta_seconds'>>
        /\ (~PlayTick /\ pipe_spawn_timer # <<>>) =>
             pipe_spawn_timer' = pipe_spawn_timer
       ]_vars

\* C18 witness: the jump key has just resumed a session that was paused on
\* the tick of its spawn: the bird is new, and the timer is the one that
\* spawn left (just under 4 s, not the 2 s of on_start), with no dt counted
\* since.
C18_Witness ==
  /\ phase = <<"Title", "Play">>
  /\ pc = "handle"
  /\ cursor = 1
  /\ events[1] = "Space"
  /\ birds = <<NewBird>>
  /\ pipes = <<>>
  /\ pipe_spawn_timer = <<4 * Scale - 1>>
  /\ since_spawn = 0

\* The entities of a store on which delete has not been called.
LiveSet(store) == {store[i] : i \in Live(store)}

\* A step of TitleScreenState::update or of PauseState::update.
IdleTick == Updating /\ Top(phase) \in {"Title", "Pause"} /\ pc' = "read"

\* Every background entity has scrolled by its speed times this tick's dt.
ScrollAdvanced ==
  /\ Len(backgrounds') = Len(backgrounds)
  /\ \A i \in 1..Len(backgrounds) :
       /\ backgrounds'[i].b_type = backgrounds[i].b_type
       /\ backgrounds'[i].scroll_pos =
            (backgrounds[i].scroll_pos
               + (IF backgrounds[i].b_type = "Ground" THEN GROUND_SCROLL_SPEED
                  ELSE BACKGROUND_SCROLL_SPEED) * delta_seconds')
            % Px(BACKGROUND_LOOPING_POINT)

\* C19: a tick in Title or in Pause leaves the spawn timer, the live pipes,
\* the live birds with their scores, and the score text as they were and
\* writes no Collision (the entities the pause deleted leave the store at
\* the end of that frame); a tick in any phase, Play too, advances the
\* Background and the Ground offsets by their speed times dt.
C19_PlaySuspended ==
  [][/\ IdleTick =>
          /\ pipe_spawn_timer' = pipe_spawn_timer
          /\ LiveSet(pipes') = LiveSet(pipes)
          /\ LiveSet(birds') = LiveSet(birds)
          /\ scoreText' = scoreText
          /\ channel' = channel
          /\ phase' = phase
     /\ (IdleTick \/ PlayTick) => ScrollAdvanced
    ]_vars

\* C19 witness: a tick of 1 s has just run in Pause: the timer of the
\* session is still there, no bird and no pipe is, and both layers have
\* scrolled (6 s since the start: one tick of 5 s before this one).
C19_Witness ==
  /\ phase = PhaseTitlePlayPause
  /\ pc = "read"
  /\ delta_seconds = Scale
  /\ pipe_spawn_timer # <<>>
  /\ birds = <<>> /\ pipes = <<>>
  /\ channel = 0
  /\ backgrounds[1].scroll_pos = 6 * BACKGROUND_SCROLL_SPEED * Scale
  /\ backgrounds[2].scroll_pos = 6 * GROUND_SCROLL_SPEED * Scale

\* C20: while Play is the active phase, between ticks and after each of
\* them, the score text is the decimal numeral of the score of the one live
\* bird; it is "0" when a session starts.
C20_ScoreTextIsScore ==
  /\ [](running /\ Top(phase) = "Play" =>
          \A i \in Live(birds) : scoreText = <<Decimal(birds[i].score)>>)
  /\ [][SessionStart => scoreText' = <<"0">>]_vars

\* C20 witness: the second session has scored a pair: the text, which the
\* pause had emptied and the resume had set to "0", is "1".
C20_Witness ==
  /\ phase = <<"Title", "Play">>
  /\ pc = "read"
  /\ titleText # UiTitleText
  /\ Len(birds) = 1
  /\ birds[1].score = 1
  /\ scoreText = <<"1">>

\* C22: while the machine runs the stack is <<Title>>, <<Title, Play>> or
\* <<Title, Play, Pause>>; a step of the running machine pushes one phase,
\* pops one or leaves the stack alone, never pops Play, and so never makes
\* Title the active phase again once Play was pushed.  (Quit empties the
\* stack and stops the machine.)
C22_PhaseStackShapes ==
  /\ [](running =>
          phase \in {<<"Title">>, <<"Title", "Play">>, PhaseTitlePlayPause})
  /\ [][(running /\ running' /\ Len(phase) >= 2) =>
          /\ Len(phase') >= 2
          /\ SubSeq(phase', 1, 2) = <<"Title", "Play">>
          /\ Top(phase') # "Title"
       ]_vars

\* C22 witness: Pause has just been popped off Play by the jump key: the
\* stack is <<Title, Play>> again, with the fresh bird of the new session
\* and the final score of the one before in the title.
C22_Witness ==
  /\ running
  /\ phase = <<"Title", "Play">>
  /\ pc = "handle"
  /\ cursor >= 1
  /\ events[cursor] = "Space"
  /\ titleText = "Your Score: 0"
  /\ birds = <<NewBird>>

\* The gap offset of the pair pipe p belongs to: the random_y its spawn drew.
GapOffset(p) ==
  IF p.rot
    THEN p.y - Px(VIRTUAL_HEIGHT) \div 2 - Px(PIPE_GAP) \div 2
    ELSE p.y + Px(VIRTUAL_HEIGHT) \div 2 + Px(PIPE_GAP) \div 2

\* Bird b is inside the gap of the pair of pipe p: at x = 0 and nearer to
\* the gap's centre than half the gap less half the bird's height.
InsideGap(b, p) ==
  /\ b.x = 0
  /\ Abs(b.y - GapOffset(p)) < Px(PIPE_GAP) \div 2 - Px(BIRD_HEIGHT) \div 2

\* C23: every pair in the store has the gap offset of a draw in
\* [-40, 40) on both of its pipes, and a Play tick that leaves the bird
\* inside the gap of a pair, wherever the pair is horizontally, writes no
\* Collision event for a pipe of that pair, for the Ground or for the
\* boundary check: the events it writes are those of pipes of other pairs.
C23_PairPassable ==
  /\ [](\A j \in 1..Len(pipes) :
          /\ Px(-40) <= GapOffset(pipes[j])
          /\ GapOffset(pipes[j]) < Px(40)
          /\ \A k \in 1..Len(pipes) :
               pipes[k].pair = pipes[j].pair =>
                 GapOffset(pipes[k]) = GapOffset(pipes[j]))
  /\ [][PlayTick =>
          \A i \in 1..Len(birds') : \A j \in 1..Len(pipes') :
            InsideGap(birds'[i], pipes'[j]) =>
              channel' - channel =
                Cardinality({k \in 1..Len(pipes') :
                               /\ pipes'[k].pair # pipes'[j].pair
                               /\ InExpandedRect(birds'[i], pipes'[k])})
       ]_vars

\* C23 witness: a tick has left the bird one unit inside the edge of the gap
\* of a pair whose pipes are horizontally over the bird, and it has written
\* no Collision.
C23_Witness ==
  /\ pc = "read"
  /\ phase = <<"Title", "Play">>
  /\ frame > MaxFrames - TickFrames
  /\ channel = 0
  /\ Len(birds) = 1
  /\ \E j \in 1..Len(pipes) :
       /\ InsideGap(birds[1], pipes[j])
       /\ Abs(birds[1].y - GapOffset(pipes[j]))
            = Px(PIPE_GAP) \div 2 - Px(BIRD_HEIGHT) \div 2 - 1
       /\ 2 * Abs(birds[1].x - pipes[j].x) <= Px(PIPE_WIDTH + BIRD_WIDTH)

\* Bird b is wholly below the Ground: it has passed it.
PastGround(b, bgs) ==
  \E i \in 1..Len(bgs) :
    /\ bgs[i].b_type = "Ground"
    /\ 2 * (bgs[i].y - b.y) > Px(BIRD_HEIGHT + GROUND_HEIGHT)

\* C21 (as claimed): in a session in which the jump key is never down and
\* every tick has dt > 0, Play always leads to a Collision event and to
\* Pause, and no Play tick takes the bird from above the Ground's lower
\* edge to below it without writing a Collision event.
C21_GameOverInevitable ==
  /\ (running /\ Top(phase) = "Play") ~> (phase = PhaseTitlePlayPause)
  /\ [][(/\ PlayTick
         /\ ~keyDown
         /\ Len(birds) = 1 /\ Len(birds') = 1
         /\ ~PastGround(birds[1], backgrounds)
         /\ PastGround(birds'[1], backgrounds')) =>
           channel' > channel
       ]_vars

\* The bird has passed the Ground in Play and no Collision is pending.
C21_Tunnelled ==
  /\ running
  /\ phase = <<"Title", "Play">>
  /\ pc = "read"
  /\ channel = 0
  /\ Len(birds) = 1
  /\ PastGround(birds[1], backgrounds)

=============================================================================
